---- MODULE Spec2Model ----
(***************************************************************************)
(* FileSorter.py (ProFileOrganizer): the category table and its settings   *)
(* handlers, the extension key, collision-safe moves, and the organize run *)
(* (scan, classify-and-move, empty-folder cleanup).                        *)
(*                                                                         *)
(* Text is modelled as a sequence of one-character strings, so that        *)
(* strip(), lower(), split(','), os.path.splitext and the f-string that    *)
(* builds "stem_k.ext" are computed, not assumed.  A path below the        *)
(* organize root is the sequence of its components; the root is << >>.     *)
(***************************************************************************)
EXTENDS Integers, Sequences, FiniteSets, TLC

VARIABLES
    pc,                         \* position of the handler / run in progress
    custom_category_mappings,   \* the global category table: name -> set of tokens
    settings_ops,               \* handler invocations of the settings window so far
    update_target,              \* existing_category_name_to_update bound to the button; << >> is None
    feedback,                   \* outcome shown by the settings feedback label
    request_facts,              \* what held of the last add/update request when it was made
    file_name,                  \* the file name handed to the pure functions
    key_out,                    \* processed_ext_key computed for file_name
    coll_out,                   \* final_destination_path computed for file_name
    move_source,                \* full_source_file_path of the move calls made on their own
    move_calls,                 \* calls of move_file_to_folder_gui made on move_source
    moved_successfully,         \* value returned by the last of these calls
    platform,                   \* sys.platform
    selected_folder,            \* selected_folder_path_var
    fs_dirs,                    \* directories below (and including) the organize root
    fs_files,                   \* files: current path -> the path the file had before the run
    hidden_attrs,               \* entries with the hidden or system attribute bit (win32)
    files_to_process,           \* result of get_files_in_folder
    total_files,
    processed_files_count,
    actual_created_category_folder_names,
    target_custom_category_name,
    walk_pending,               \* directories os.walk(topdown=False) has still to yield
    walk_top,                   \* the directory whose subdirectories that walk is going through
    deleted_count,              \* folders removed by the cleanup sweep
    status_log,                 \* phase and error messages inserted into status_textbox
    tree_before,                \* the folders and files as they were when the run (or the move call) started
    io_failures,                \* number of I/O failures met by the run so far
    previous_runs               \* the I/O failure count of each earlier run on this tree

vars == <<pc, custom_category_mappings, settings_ops, update_target, feedback,
          request_facts,
          file_name, key_out, coll_out, move_source, move_calls,
          moved_successfully, platform, selected_folder, fs_dirs,
          fs_files, hidden_attrs, files_to_process, total_files,
          processed_files_count, actual_created_category_folder_names,
          target_custom_category_name, walk_pending, walk_top, deleted_count,
          status_log, tree_before, io_failures, previous_runs>>

tableVars == <<custom_category_mappings, settings_ops, update_target, feedback,
               request_facts>>
moveVars == <<move_source, move_calls, moved_successfully>>
pureVars == <<file_name, key_out, coll_out, moveVars>>
treeVars == <<platform, selected_folder, fs_dirs, fs_files, hidden_attrs>>
runVars == <<files_to_process, total_files, processed_files_count,
             actual_created_category_folder_names,
             target_custom_category_name, walk_pending, walk_top, deleted_count,
             status_log, tree_before, io_failures, previous_runs>>

-----------------------------------------------------------------------------
(* Bounds of the model.                                                    *)

\* longest file name drawn for the extension key
MaxNameLen == 4
\* highest stem_k sibling that may already sit in the destination folder
MaxProbe == 10
\* longest sequence of settings-window operations explored
MaxSettingsOps == 3
\* files and extra empty folders in the tree a run starts on
MaxFiles == 3
MaxExtraDirs == 1
\* I/O failures (makedirs, move, listdir, rmdir) the runs on one tree may meet
MaxIOFailures == 1
\* calls of the move function made on one path
MaxMoveCalls == 2
\* organize runs made one after the other on the same tree
MaxRuns == 2

-----------------------------------------------------------------------------
(* Text primitives (Python str methods, os.path).                          *)

LowerLetters == <<"a","b","c","d","e","f","g","h","i","j","k","l","m",
                  "n","o","p","q","r","s","t","u","v","w","x","y","z">>
UpperLetters == <<"A","B","C","D","E","F","G","H","I","J","K","L","M",
                  "N","O","P","Q","R","S","T","U","V","W","X","Y","Z">>
Digits == <<"0","1","2","3","4","5","6","7","8","9">>

SetMax(S) == CHOOSE x \in S : \A y \in S : y <= x

\* the case mappings of the ASCII letters
ToLower == [c \in {UpperLetters[i] : i \in DOMAIN UpperLetters} |->
               LowerLetters[CHOOSE i \in DOMAIN UpperLetters : UpperLetters[i] = c]]
ToUpper == [c \in {LowerLetters[i] : i \in DOMAIN LowerLetters} |->
               UpperLetters[CHOOSE i \in DOMAIN LowerLetters : LowerLetters[i] = c]]

LowerChar(c) == IF c \in DOMAIN ToLower THEN ToLower[c] ELSE c
UpperChar(c) == IF c \in DOMAIN ToUpper THEN ToUpper[c] ELSE c

\* str.lower(), str.upper()
Lower(s) == [i \in 1..Len(s) |-> LowerChar(s[i])]
Upper(s) == [i \in 1..Len(s) |-> UpperChar(s[i])]

\* str.strip(): leading and trailing whitespace removed
RECURSIVE LStrip(_)
LStrip(s) == IF s = << >> \/ Head(s) # " " THEN s ELSE LStrip(Tail(s))

RECURSIVE RStrip(_)
RStrip(s) == IF s = << >> \/ s[Len(s)] # " " THEN s ELSE RStrip(SubSeq(s, 1, Len(s) - 1))

Strip(s) == RStrip(LStrip(s))

\* str.split(sep): the pieces between the separators, empty pieces kept
RECURSIVE SplitFrom(_, _, _, _)
SplitFrom(s, sep, start, i) ==
    IF i > Len(s) THEN <<SubSeq(s, start, Len(s))>>
    ELSE IF s[i] = sep
         THEN <<SubSeq(s, start, i - 1)>> \o SplitFrom(s, sep, i + 1, i + 1)
         ELSE SplitFrom(s, sep, start, i + 1)

Split(s, sep) == SplitFrom(s, sep, 1, 1)

EndsWith(s, suffix) ==
    /\ Len(s) >= Len(suffix)
    /\ SubSeq(s, Len(s) - Len(suffix) + 1, Len(s)) = suffix

\* str(count) inside the f-string of the collision loop
RECURSIVE IntToStr(_)
IntToStr(n) ==
    IF n < Len(Digits) THEN <<Digits[n + 1]>>
    ELSE IntToStr(n \div Len(Digits)) \o <<Digits[(n % Len(Digits)) + 1]>>

\* os.path.splitext on a base name: the extension starts at the last dot,
\* unless only dots precede that dot (leading dots belong to the root)
SplitExt(p) ==
    LET dots == {i \in 1..Len(p) : p[i] = "."}
    IN  IF dots = {} THEN <<p, << >> >>
        ELSE LET d == SetMax(dots)
             IN  IF \E j \in 1..(d - 1) : p[j] # "."
                 THEN <<SubSeq(p, 1, d - 1), SubSeq(p, d, Len(p))>>
                 ELSE <<p, << >> >>

\* all texts over an alphabet, of a length in lo..hi
TextsOver(alphabet, lo, hi) ==
    UNION {[1..n -> alphabet] : n \in lo..hi}

-----------------------------------------------------------------------------
(* Constants of the program.                                               *)

NO_EXTENSION_KEYWORD == <<"n","o","_","e","x","t","e","n","s","i","o","n">>

-----------------------------------------------------------------------------
(* Extension key (Classifier).                                             *)

get_file_extension(name) == Lower(SplitExt(name)[2])

\* as ProcessedExtKey, without the final "map the empty key to the keyword"
ProcessedExtKey_NoEmptyFix(name) ==
    LET ext == get_file_extension(name)
    IN  IF ext = << >> \/ (ext = <<".">> /\ ~EndsWith(name, <<".", ".">>))
        THEN NO_EXTENSION_KEYWORD
        ELSE Lower(Tail(ext))

\* processed_ext_key of start_organization_command
ProcessedExtKey(name) ==
    LET ext == get_file_extension(name)
        first == IF ext = << >> \/ (ext = <<".">> /\ ~EndsWith(name, <<".", ".">>))
                 THEN NO_EXTENSION_KEYWORD
                 ELSE Lower(Tail(ext))
    IN  IF first = << >> /\ first # NO_EXTENSION_KEYWORD
        THEN NO_EXTENSION_KEYWORD
        ELSE first

-----------------------------------------------------------------------------
(* Category names and extension tokens used by the program and the inputs. *)

IMAGES == <<"I","M","A","G","E","S">>
DOCUMENTS == <<"D","O","C","U","M","E","N","T","S">>
AUDIO == <<"A","U","D","I","O">>
VIDEO == <<"V","I","D","E","O">>
ARCHIVES == <<"A","R","C","H","I","V","E","S">>
NO_EXTENSION_FILES == <<"N","O","_","E","X","T","E","N","S","I","O","N","_","F","I","L","E","S">>
DOCS == <<"D","O","C","S">>

\* custom_category_mappings when no config file exists
DefaultMappings ==
    (IMAGES :> {<<"j","p","g">>, <<"j","p","e","g">>, <<"p","n","g">>, <<"g","i","f">>, <<"b","m","p">>, <<"w","e","b","p">>})
    @@ (DOCUMENTS :> {<<"p","d","f">>, <<"d","o","c">>, <<"d","o","c","x">>, <<"t","x","t">>, <<"r","t","f">>, <<"o","d","t">>})
    @@ (AUDIO :> {<<"m","p","3">>, <<"w","a","v">>, <<"a","a","c">>})
    @@ (VIDEO :> {<<"m","p","4">>, <<"m","o","v">>, <<"a","v","i">>, <<"m","k","v">>})
    @@ (ARCHIVES :> {<<"z","i","p">>, <<"r","a","r">>, <<"7","z">>})
    @@ (NO_EXTENSION_FILES :> {NO_EXTENSION_KEYWORD})

\* custom_category_mappings when the config file cannot be read or parsed
FallbackMappings ==
    (IMAGES :> {<<"j","p","g">>, <<"j","p","e","g">>, <<"p","n","g">>})
    @@ (DOCUMENTS :> {<<"p","d","f">>, <<"t","x","t">>})
    @@ (NO_EXTENSION_FILES :> {NO_EXTENSION_KEYWORD})

-----------------------------------------------------------------------------
(* Settings window: add, update/rename and remove of categories.           *)

\* {e.strip() for e in exts_str.split(',')}
SplitTokens(exts_str) ==
    LET pieces == Split(exts_str, ",")
    IN  {Strip(pieces[i]) : i \in DOMAIN pieces}

\* current_exts_set: the stripped pieces that are neither empty nor "."
ParsedExtensions(exts_str) ==
    {e \in SplitTokens(exts_str) : e # << >> /\ e # <<".">>}

\* as get_all_assigned_extensions_settings, with the loop body never run
get_all_assigned_extensions_settings_Nothing(table, exclude_category) == {}

get_all_assigned_extensions_settings(table, exclude_category) ==
    UNION {table[cat] : cat \in {c \in DOMAIN table :
                                   ~(exclude_category # << >> /\ c = exclude_category)}}

\* as IsNoExtensionCategoryName, comparing without .upper()
IsNoExtensionCategoryName_CaseSensitive(new_cat_name) == new_cat_name = NO_EXTENSION_FILES

\* new_cat_name.upper() == "NO_EXTENSION_FILES"
IsNoExtensionCategoryName(new_cat_name) == Upper(new_cat_name) = NO_EXTENSION_FILES

\* existing_category_name_to_update or new_cat_name
ExcludedCategory(existing, new_cat_name) ==
    IF existing # << >> THEN existing ELSE new_cat_name

\* The feedback label after the validation of add_or_update_category_command_settings;
\* "" when every check passes.
AddOrUpdateOutcome(table, existing, typed_name, typed_exts) ==
    LET new_cat_name == Strip(typed_name)
        exts_str == Lower(Strip(typed_exts))
        current_exts_set == ParsedExtensions(exts_str)
    IN  IF new_cat_name = << >> THEN "CategoryNameEmpty"
        ELSE IF exts_str = << >> THEN "ExtensionsEmpty"
        ELSE IF IsNoExtensionCategoryName(new_cat_name) /\ exts_str # NO_EXTENSION_KEYWORD
            THEN "MustOnlyContainKeyword"
        ELSE IF ~IsNoExtensionCategoryName(new_cat_name)
                /\ NO_EXTENSION_KEYWORD \in SplitTokens(exts_str)
            THEN "KeywordOnlyInNoExtensionCategory"
        ELSE IF current_exts_set = {} THEN "NoValidExtensions"
        ELSE IF existing = << >> /\ new_cat_name \in DOMAIN table
            THEN "CategoryAlreadyExists"
        ELSE IF existing # << >> /\ new_cat_name # existing
                /\ new_cat_name \in DOMAIN table
            THEN "NewNameAlreadyExists"
        ELSE IF current_exts_set
                \cap get_all_assigned_extensions_settings(
                         table, ExcludedCategory(existing, new_cat_name)) # {}
            THEN "ExtensionsInOtherCategories"
        ELSE ""

\* as AddOrUpdateTable, without the del of the renamed entry
AddOrUpdateTable_KeepsRenamed(table, existing, typed_name, typed_exts) ==
    LET new_cat_name == Strip(typed_name)
        current_exts_set == ParsedExtensions(Lower(Strip(typed_exts)))
    IN  [cat \in DOMAIN table \cup {new_cat_name} |->
            IF cat = new_cat_name THEN current_exts_set ELSE table[cat]]

\* The table after an accepted request: the renamed entry deleted, the new one installed.
AddOrUpdateTable(table, existing, typed_name, typed_exts) ==
    LET new_cat_name == Strip(typed_name)
        current_exts_set == ParsedExtensions(Lower(Strip(typed_exts)))
        kept == IF existing # << >> /\ existing # new_cat_name /\ existing \in DOMAIN table
                THEN DOMAIN table \ {existing}
                ELSE DOMAIN table
    IN  [cat \in kept \cup {new_cat_name} |->
            IF cat = new_cat_name THEN current_exts_set ELSE table[cat]]

-----------------------------------------------------------------------------
(* Collision-safe destination (Relocator).                                 *)

\* os.path.exists
PathExists(dirs, files, path) == path \in dirs \/ path \in DOMAIN files

\* the while loop of move_file_to_folder_gui: count, count + 1, ... until free
RECURSIVE CollisionProbe(_, _, _, _, _, _)
CollisionProbe(dirs, files, folder, name_part, ext_part, count) ==
    LET candidate == Append(folder, name_part \o <<"_">> \o IntToStr(count) \o ext_part)
    IN  IF PathExists(dirs, files, candidate)
        THEN CollisionProbe(dirs, files, folder, name_part, ext_part, count + 1)
        ELSE candidate

\* as FinalDestinationPath, with the while loop left out: always stem_1
FinalDestinationPath_NoLoop(dirs, files, folder, file_name_only) ==
    IF PathExists(dirs, files, Append(folder, file_name_only))
    THEN Append(folder, SplitExt(file_name_only)[1] \o <<"_">> \o IntToStr(1)
                            \o SplitExt(file_name_only)[2])
    ELSE Append(folder, file_name_only)

\* as FinalDestinationPath, without the os.path.exists test of line 236
FinalDestinationPath_NoExistsTest(dirs, files, folder, file_name_only) ==
    Append(folder, file_name_only)

\* final_destination_path of move_file_to_folder_gui after collision handling
FinalDestinationPath(dirs, files, folder, file_name_only) ==
    IF PathExists(dirs, files, Append(folder, file_name_only))
    THEN CollisionProbe(dirs, files, folder, SplitExt(file_name_only)[1],
                        SplitExt(file_name_only)[2], 1)
    ELSE Append(folder, file_name_only)

-----------------------------------------------------------------------------
(* PathGuard: the protected roots and the hidden/system test.              *)

Sep(plat) == IF plat = "win32" THEN "\\" ELSE "/"

StartsWith(s, prefix) ==
    /\ Len(s) >= Len(prefix)
    /\ SubSeq(s, 1, Len(prefix)) = prefix

RECURSIVE Join(_, _)
Join(parts, sep) ==
    IF parts = << >> THEN << >>
    ELSE IF Len(parts) = 1 THEN parts[1]
    ELSE parts[1] \o <<sep>> \o Join(Tail(parts), sep)

\* the component loop of normpath: empty and "." components dropped, ".."
\* cancels the component before it (and is dropped at the root)
RECURSIVE NormComponents(_, _, _)
NormComponents(comps, kept, rooted) ==
    IF comps = << >> THEN kept
    ELSE LET c == Head(comps)
         IN  IF c = << >> \/ c = <<".">>
             THEN NormComponents(Tail(comps), kept, rooted)
             ELSE IF c = <<".", ".">>
             THEN IF kept # << >> /\ kept[Len(kept)] # <<".", ".">>
                  THEN NormComponents(Tail(comps), SubSeq(kept, 1, Len(kept) - 1), rooted)
                  ELSE IF rooted
                  THEN NormComponents(Tail(comps), kept, rooted)
                  ELSE NormComponents(Tail(comps), Append(kept, c), rooted)
             ELSE NormComponents(Tail(comps), Append(kept, c), rooted)

\* posixpath.normpath
PosixNormPath(path) ==
    LET rooted == StartsWith(path, <<"/">>)
        slashes == IF StartsWith(path, <<"/", "/">>) /\ ~StartsWith(path, <<"/", "/", "/">>)
                   THEN <<"/", "/">>
                   ELSE IF rooted THEN <<"/">> ELSE << >>
        body == Join(NormComponents(Split(path, "/"), << >>, rooted), "/")
    IN  IF path = << >> THEN <<".">>
        ELSE IF slashes \o body = << >> THEN <<".">>
        ELSE slashes \o body

\* ntpath.normpath on a path with a drive letter or none
NtNormPath(path) ==
    LET back == [i \in 1..Len(path) |-> IF path[i] = "/" THEN "\\" ELSE path[i]]
        drive == IF Len(back) >= 2 /\ back[2] = ":" THEN SubSeq(back, 1, 2) ELSE << >>
        rest == SubSeq(back, Len(drive) + 1, Len(back))
        rooted == StartsWith(rest, <<"\\">>)
        root == IF rooted THEN <<"\\">> ELSE << >>
        body == Join(NormComponents(Split(rest, "\\"), << >>, rooted), "\\")
    IN  IF drive \o root \o body = << >> THEN <<".">>
        ELSE drive \o root \o body

\* os.path.normpath
NormPath(plat, path) == IF plat = "win32" THEN NtNormPath(path) ELSE PosixNormPath(path)

NoFolderSelected == <<"N","o"," ","F","o","l","d","e","r"," ","S","e","l","e","c","t","e","d">>

\* the directories that exist on the machine, outside the tree being organized
ExistingDirectories(plat) ==
    IF plat = "win32"
    THEN {<<"D",":","\\","d","a","t","a">>, <<"C",":","\\","W","i","n","d","o","w","s">>, <<"C",":","\\","W","i","n","d","o","w","s","\\","T","e","m","p">>, <<"C",":","\\","P","r","o","g","r","a","m"," ","F","i","l","e","s">>, <<"C",":","\\","U","s","e","r","s","\\","u","\\","A","p","p","D","a","t","a">>,
          <<"C",":","\\","W","i","n","d","o","w","s","O","l","d">>}
    ELSE {<<"/","d","a","t","a">>, <<"/","u","s","r">>, <<"/","u","s","r","/","l","o","c","a","l">>, <<"/","u","s","r","x">>, <<"/","e","t","c">>, <<"/","v","a","r">>, <<"/","h","o","m","e","/","u","/",".","c","o","n","f","i","g">>}

\* os.path.isdir of the selected folder
IsDir(plat, path) == NormPath(plat, path) \in ExistingDirectories(plat)

\* the paths get_forbidden_paths lists before its existence filter
ListedForbiddenPaths(plat) ==
    IF plat = "win32"
    THEN {<<"C",":","\\","W","i","n","d","o","w","s">>, <<"C",":","\\","P","r","o","g","r","a","m"," ","F","i","l","e","s">>, <<"C",":","\\","P","r","o","g","r","a","m"," ","F","i","l","e","s"," ","(","x","8","6",")">>, <<"C",":","\\","U","s","e","r","s","\\","u","\\","A","p","p","D","a","t","a">>}
    ELSE IF plat = "darwin"
    THEN {<<"/","S","y","s","t","e","m">>, <<"/","L","i","b","r","a","r","y">>, <<"/","u","s","r">>, <<"/","p","r","i","v","a","t","e">>, <<"/","h","o","m","e","/","u","/","L","i","b","r","a","r","y","/","A","p","p","l","i","c","a","t","i","o","n"," ","S","u","p","p","o","r","t">>}
    ELSE IF StartsWith(plat, <<"l","i","n","u","x">>)
    THEN {<<"/","b","o","o","t">>, <<"/","e","t","c">>, <<"/","l","i","b">>, <<"/","p","r","o","c">>, <<"/","s","y","s">>, <<"/","u","s","r">>, <<"/","v","a","r">>, <<"/","h","o","m","e","/","u","/",".","c","o","n","f","i","g">>}
    ELSE {}

PlatformName(plat) ==
    IF plat = "win32" THEN <<"w","i","n","3","2">>
    ELSE IF plat = "darwin" THEN <<"d","a","r","w","i","n">>
    ELSE <<"l","i","n","u","x">>

get_forbidden_paths(plat) ==
    {p \in {NormPath(plat, q) : q \in ListedForbiddenPaths(PlatformName(plat))} :
        p \in ExistingDirectories(plat)}

\* as IsForbiddenTarget, with a plain startswith(forbidden_path)
IsForbiddenTarget_PlainPrefix(plat, target_dir) ==
    \E forbidden_path \in get_forbidden_paths(plat) :
        StartsWith(NormPath(plat, target_dir), forbidden_path)

\* the loop over get_forbidden_paths() of start_organization_command
IsForbiddenTarget(plat, target_dir) ==
    LET normalized_target_dir == NormPath(plat, target_dir)
    IN  \E forbidden_path \in get_forbidden_paths(plat) :
            \/ normalized_target_dir = forbidden_path
            \/ StartsWith(normalized_target_dir \o <<Sep(plat)>>,
                          forbidden_path \o <<Sep(plat)>>)

\* not target_dir or target_dir == "No Folder Selected" or not os.path.isdir(target_dir)
IsInvalidTarget(plat, target_dir) ==
    \/ target_dir = << >>
    \/ target_dir = NoFolderSelected
    \/ ~IsDir(plat, target_dir)

Parent(path) == SubSeq(path, 1, Len(path) - 1)
BaseName(path) == path[Len(path)]

\* is_system_or_hidden
is_system_or_hidden(plat, attrs, path) ==
    IF plat = "win32" THEN path \in attrs
    ELSE IF plat \in {"darwin", "linux", "linux2"} THEN StartsWith(BaseName(path), <<".">>)
    ELSE FALSE

-----------------------------------------------------------------------------
(* The organize run: tree helpers, scan order, classification, move,       *)
(* cleanup order.                                                          *)

\* all orders in which the entries of a set can be listed
RECURSIVE PermSeqs(_)
PermSeqs(S) ==
    IF S = {} THEN {<< >>}
    ELSE UNION {{<<x>> \o rest : rest \in PermSeqs(S \ {x})} : x \in S}

ChildDirs(dirs, top) == {d \in dirs : Len(d) = Len(top) + 1 /\ Parent(d) = top}
ChildFiles(files, top) == {f \in DOMAIN files : Parent(f) = top}

\* os.listdir(dirpath)
ListDir(dirs, files, dirpath) == ChildDirs(dirs, dirpath) \cup ChildFiles(files, dirpath)

\* os.walk(top) as get_files_in_folder drives it: the visible files of a
\* directory in listing order, then the visible subdirectories one by one
RECURSIVE WalkFiles(_, _, _, _, _)
RECURSIVE WalkDirs(_, _, _, _, _)
WalkFiles(plat, attrs, dirs, files, top) ==
    LET filenames == {f \in ChildFiles(files, top) : ~is_system_or_hidden(plat, attrs, f)}
        dirnames == {d \in ChildDirs(dirs, top) : ~is_system_or_hidden(plat, attrs, d)}
    IN  {here \o below : here \in PermSeqs(filenames),
                         below \in WalkDirs(plat, attrs, dirs, files, dirnames)}
WalkDirs(plat, attrs, dirs, files, dirnames) ==
    IF dirnames = {} THEN {<< >>}
    ELSE UNION {{first \o rest : first \in WalkFiles(plat, attrs, dirs, files, d),
                                 rest \in WalkDirs(plat, attrs, dirs, files, dirnames \ {d})}
                : d \in dirnames}

get_files_in_folder(plat, attrs, dirs, files) == WalkFiles(plat, attrs, dirs, files, << >>)

\* as NextYielded, the walk being top-down: a directory comes before all below it
NextYielded_TopDown(pending, top) ==
    {d \in pending : ~\E x \in pending : x # d /\ StartsWith(d, x)}

\* os.walk(top, topdown=False): the directories that can be yielded next when
\* the walk is going through the subdirectories of top.  The walk enters any
\* subdirectory not yet done and descends, in any listing order, to a
\* directory without subdirectories; top itself comes after all below it.
NextYielded(pending, top) ==
    IF \E d \in pending : Len(d) = Len(top) + 1 /\ Parent(d) = top
    THEN {d \in pending : /\ Len(d) > Len(top)
                          /\ StartsWith(d, top)
                          /\ ~\E x \in pending : Len(x) = Len(d) + 1 /\ Parent(x) = d}
    ELSE {top} \cap pending

\* as Classify, returning the first category scanned whatever its set holds
Classify_NoMembershipTest(table, order, processed_ext_key) ==
    IF order = << >> THEN << >> ELSE Head(order)

\* the for .. in custom_category_mappings.items() loop; order is the order in
\* which the dict yields its entries; << >> is None
RECURSIVE Classify(_, _, _)
Classify(table, order, processed_ext_key) ==
    IF order = << >> THEN << >>
    ELSE IF processed_ext_key \in table[Head(order)] THEN Head(order)
    ELSE Classify(table, Tail(order), processed_ext_key)

\* os.makedirs(join(folder_path, sub_folder_name), exist_ok=True), succeeding
create_folder_if_not_exists_gui(dirs, sub_folder_name) == dirs \cup {<<sub_folder_name>>}

\* shutil.move(source, destination) onto a free destination
MoveFile(files, source, destination) ==
    [p \in (DOMAIN files \ {source}) \cup {destination} |->
        IF p = destination THEN files[source] ELSE files[p]]

\* as move_file_to_folder_gui, the destination folder being the organize root
move_file_to_folder_gui_IntoRoot(dirs, files, full_source_file_path, destination_category_name) ==
    MoveFile(files, full_source_file_path,
             FinalDestinationPath(dirs, files, << >>, BaseName(full_source_file_path)))

\* move_file_to_folder_gui, succeeding: the files after the call
move_file_to_folder_gui(dirs, files, full_source_file_path, destination_category_name) ==
    LET file_name_only == BaseName(full_source_file_path)
        final_destination_folder == <<destination_category_name>>
    IN  IF /\ Parent(full_source_file_path) = final_destination_folder
           /\ full_source_file_path = Append(final_destination_folder, file_name_only)
        THEN files
        ELSE MoveFile(files, full_source_file_path,
                      FinalDestinationPath(dirs, files, final_destination_folder,
                                           file_name_only))

\* the test of lines 233-234: the source already is root/category/its own name
AlreadyInPlace(full_source_file_path, destination_category_name) ==
    /\ Parent(full_source_file_path) = <<destination_category_name>>
    /\ full_source_file_path
           = Append(<<destination_category_name>>, BaseName(full_source_file_path))

\* the value a call of move_file_to_folder_gui hands back: the return of the
\* finally block (lines 260-262) replaces any return reached in the try
\* block, so the caller receives moved_successfully as it stands then: FALSE
\* from line 231 unless line 256 was reached; move_ok says whether
\* shutil.move succeeds
MoveReturns(files, full_source_file_path, destination_category_name, move_ok) ==
    IF AlreadyInPlace(full_source_file_path, destination_category_name)
    THEN FALSE
    ELSE full_source_file_path \in DOMAIN files /\ move_ok

\* as ProtectedCategoryPaths, protecting nothing
ProtectedCategoryPaths_None(names) == {}

\* protected_category_paths of delete_empty_folders_recursively
ProtectedCategoryPaths(names) == {<<name>> : name \in names}

-----------------------------------------------------------------------------
(* Values the variables a specification does not use are held at.          *)

TableAtRest ==
    /\ custom_category_mappings = DefaultMappings
    /\ settings_ops = 0
    /\ update_target = << >>
    /\ feedback = ""
    /\ request_facts = {}

MoveAtRest ==
    /\ move_source = << >>
    /\ move_calls = 0
    /\ moved_successfully = FALSE

PureAtRest ==
    /\ file_name = << >>
    /\ key_out = << >>
    /\ coll_out = << >>
    /\ MoveAtRest

TreeAtRest ==
    /\ platform = "linux"
    /\ selected_folder = << >>
    /\ fs_dirs = {<< >>}
    /\ fs_files = << >>
    /\ hidden_attrs = {}

RunAtRest ==
    /\ files_to_process = << >>
    /\ total_files = 0
    /\ processed_files_count = 0
    /\ actual_created_category_folder_names = {}
    /\ target_custom_category_name = << >>
    /\ walk_pending = {}
    /\ walk_top = << >>
    /\ deleted_count = 0
    /\ status_log = << >>
    /\ tree_before = <<{<< >>}, << >>>>
    /\ io_failures = 0
    /\ previous_runs = << >>

-----------------------------------------------------------------------------
(* SpecKey: the extension key as a function of the file name.              *)

ReportPDF == <<"r","e","p","o","r","t",".","P","D","F">>
KeyAlphabet == {"a", "B", "."}
KeyFileNames == TextsOver(KeyAlphabet, 1, MaxNameLen) \cup {ReportPDF}

InitKey ==
    /\ pc = "key_input"
    /\ file_name \in KeyFileNames
    /\ key_out = << >>
    /\ coll_out = << >>
    /\ MoveAtRest
    /\ TableAtRest /\ TreeAtRest /\ RunAtRest

ComputeKey ==
    /\ pc = "key_input"
    /\ key_out' = ProcessedExtKey(file_name)
    /\ pc' = "key_done"
    /\ UNCHANGED <<file_name, coll_out, moveVars, tableVars, treeVars, runVars>>

NextKey == ComputeKey

SpecKey == InitKey /\ [][NextKey]_vars

-----------------------------------------------------------------------------
(* SpecCollide: the destination path as a function of the folder content.  *)

A_TXT == <<"a",".","t","x","t">>
B_NOEXT == <<"b">>
OTHER_TXT == <<"o",".","t","x","t">>
CollideNames == {A_TXT, B_NOEXT}

\* stem_k + ext, as the claim writes it
Sibling(name, k) == SplitExt(name)[1] \o <<"_">> \o IntToStr(k) \o SplitExt(name)[2]

InitCollide ==
    /\ pc = "coll_input"
    /\ file_name \in CollideNames
    /\ key_out = << >>
    /\ coll_out = << >>
    /\ MoveAtRest
    /\ platform = "linux"
    /\ selected_folder = << >>
    /\ hidden_attrs = {}
    /\ fs_dirs = {<< >>, <<DOCS>>}
    /\ \E content \in SUBSET ({file_name, OTHER_TXT}
                               \cup {Sibling(file_name, k) : k \in 1..MaxProbe}) :
          fs_files = [p \in {<<DOCS, n>> : n \in content} \cup {<<file_name>>} |-> p]
    /\ TableAtRest /\ RunAtRest

ResolveCollision ==
    /\ pc = "coll_input"
    /\ coll_out' = FinalDestinationPath(fs_dirs, fs_files, <<DOCS>>, file_name)
    /\ pc' = "coll_done"
    /\ UNCHANGED <<file_name, key_out, moveVars, tableVars, treeVars, runVars>>

NextCollide == ResolveCollision

SpecCollide == InitCollide /\ [][NextCollide]_vars

-----------------------------------------------------------------------------
(* SpecTable: the settings window's handlers acting on the category table. *)

\* texts found in the category-name entry when a button is clicked
NameTexts ==
    {<<" ">>, <<" ", "X", " ">>, IMAGES, NO_EXTENSION_FILES, Lower(NO_EXTENSION_FILES)}

\* texts found in the extensions entry when the Add/Update button is clicked
ExtTexts ==
    {<< >>, <<",", " ">>, <<".">>, <<"a", ",", " ", "B">>,
     <<"j","p","g">>, <<" ", "J","P","G">>, <<".","j","p","g">>,
     <<"p","d","f",","," ","t","x","t">>,
     NO_EXTENSION_KEYWORD, NO_EXTENSION_KEYWORD \o <<",">>,
     NO_EXTENSION_KEYWORD \o <<",","j","p","g">>}

\* What the claims say of a request, decided on the table as it is when the
\* button is clicked.  The request's name is the entry's text trimmed; its
\* extension set is the trimmed, lower-cased, comma-separated pieces that are
\* not empty.
RequestName(typed_name) == Strip(typed_name)
RequestTokens(typed_exts) == SplitTokens(Lower(Strip(typed_exts))) \ {<< >>}
LoweredNoExtensionFiles == Lower(NO_EXTENSION_FILES)
DenotesNoExtensionCategory(cat) == Lower(cat) = LoweredNoExtensionFiles

RequestFacts(table, existing, typed_name, typed_exts) ==
    LET name == RequestName(typed_name)
        tokens == RequestTokens(typed_exts)
        reserved == DenotesNoExtensionCategory(name)
    IN  {"requested"}
        \cup (IF name = << >> THEN {"blank_name"} ELSE {})
        \cup (IF tokens = {} THEN {"no_tokens"} ELSE {})
        \cup (IF name \in DOMAIN table /\ name # existing THEN {"name_taken"} ELSE {})
        \cup (IF \/ (reserved /\ tokens # {NO_EXTENSION_KEYWORD})
                 \/ (~reserved /\ NO_EXTENSION_KEYWORD \in tokens)
              THEN {"breaks_reserved_rule"} ELSE {})
        \cup (IF \E cat \in DOMAIN table : cat # existing /\ tokens \cap table[cat] # {}
              THEN {"owned_elsewhere"} ELSE {})

InitTable ==
    /\ pc = "settings"
    /\ custom_category_mappings \in {DefaultMappings, FallbackMappings}
    /\ settings_ops = 0
    /\ update_target = << >>
    /\ feedback = ""
    /\ request_facts = {}
    /\ PureAtRest /\ TreeAtRest /\ RunAtRest

\* The Add/Update button: the handler runs with the existing_category_name_to_update
\* bound to the button and reads the two entries as the user left them.
add_or_update_category_command_settings(typed_name, typed_exts) ==
    /\ pc = "settings"
    /\ settings_ops < MaxSettingsOps
    /\ settings_ops' = settings_ops + 1
    /\ LET outcome == AddOrUpdateOutcome(custom_category_mappings, update_target,
                                         typed_name, typed_exts)
       IN  IF outcome = ""
           THEN /\ custom_category_mappings' =
                       AddOrUpdateTable(custom_category_mappings, update_target,
                                        typed_name, typed_exts)
                /\ update_target' = << >>
                /\ feedback' = ""
           ELSE /\ feedback' = outcome
                /\ UNCHANGED <<custom_category_mappings, update_target>>
    /\ request_facts' =
           RequestFacts(custom_category_mappings, update_target, typed_name, typed_exts)
           \cup (IF custom_category_mappings' # custom_category_mappings
                 THEN {"table_changed"} ELSE {})
    /\ UNCHANGED <<pc, pureVars, treeVars, runVars>>

\* The Edit button of a listed category
populate_edit_fields_settings(category_name_to_edit) ==
    /\ pc = "settings"
    /\ settings_ops < MaxSettingsOps
    /\ settings_ops' = settings_ops + 1
    /\ category_name_to_edit \in DOMAIN custom_category_mappings
    /\ update_target' = category_name_to_edit
    /\ feedback' = ""
    /\ request_facts' = {}
    /\ UNCHANGED <<pc, custom_category_mappings, pureVars, treeVars, runVars>>

\* The Remove button of a listed category; name_in_entry is the text the
\* category-name entry holds at that moment
remove_category_command_settings(cat_to_remove, name_in_entry) ==
    /\ pc = "settings"
    /\ settings_ops < MaxSettingsOps
    /\ settings_ops' = settings_ops + 1
    /\ cat_to_remove \in DOMAIN custom_category_mappings
    /\ custom_category_mappings' =
           [cat \in DOMAIN custom_category_mappings \ {cat_to_remove} |->
               custom_category_mappings[cat]]
    /\ IF name_in_entry = cat_to_remove
       THEN /\ update_target' = << >>
            /\ feedback' = ""
       ELSE UNCHANGED <<update_target, feedback>>
    /\ request_facts' = {}
    /\ UNCHANGED <<pc, pureVars, treeVars, runVars>>

AddOrUpdateClick ==
    \E typed_name \in NameTexts \cup {update_target}, typed_exts \in ExtTexts :
        add_or_update_category_command_settings(typed_name, typed_exts)

EditClick ==
    \E cat \in DOMAIN custom_category_mappings : populate_edit_fields_settings(cat)

RemoveClick ==
    \E cat \in DOMAIN custom_category_mappings :
        \E name_in_entry \in {cat, << >>} :
            remove_category_command_settings(cat, name_in_entry)

NextTable == AddOrUpdateClick \/ EditClick \/ RemoveClick

SpecTable == InitTable /\ [][NextTable]_vars

-----------------------------------------------------------------------------
(* SpecClassify: the category of an extension key, by the scan of the table. *)

ClassifyNames == {IMAGES, DOCS, NO_EXTENSION_FILES}
ClassifyTokens == {<<"j","p","g">>, <<"t","x","t">>, <<"p","d","f">>, NO_EXTENSION_KEYWORD}
ClassifyKeys == ClassifyTokens \cup {<<"z","i","p">>}

\* tables the settings window can build: no token in two categories
ClassifyTables ==
    UNION {{t \in [names -> SUBSET ClassifyTokens \ {{}}] :
               \A a, b \in names : a # b => t[a] \cap t[b] = {}}
           : names \in SUBSET ClassifyNames}

InitClassify ==
    /\ pc = "classify_input"
    /\ custom_category_mappings \in ClassifyTables
    /\ settings_ops = 0
    /\ update_target = << >>
    /\ feedback = ""
    /\ request_facts = {}
    /\ file_name = << >>
    /\ key_out \in ClassifyKeys
    /\ coll_out = << >>
    /\ MoveAtRest
    /\ TreeAtRest
    /\ RunAtRest

\* lines 586-589 on key_out, the dict yielding its entries in any order
ClassifyKey ==
    /\ pc = "classify_input"
    /\ \E order \in PermSeqs(DOMAIN custom_category_mappings) :
          target_custom_category_name' = Classify(custom_category_mappings, order, key_out)
    /\ pc' = "classify_done"
    /\ UNCHANGED <<files_to_process, total_files, processed_files_count,
                   actual_created_category_folder_names, walk_pending, walk_top,
                   deleted_count, status_log, tree_before, io_failures>>
    /\ UNCHANGED <<tableVars, pureVars, previous_runs, treeVars>>

NextClassify == ClassifyKey

SpecClassify == InitClassify /\ [][NextClassify]_vars

-----------------------------------------------------------------------------
(* SpecRun: one organize run on a tree of files and folders.               *)

A_JPG == <<"a",".","j","p","g">>
B_TXT == <<"b",".","t","x","t">>
C_NOEXT == <<"c">>
OLD == <<"o","l","d">>
SUB == <<"s","u","b">>
DEEP == <<"d","e","e","p">>
DOT_H == <<".","h">>

ExampleMappings ==
    IMAGES :> {<<"j","p","g">>} @@ DOCS :> {<<"t","x","t">>}
        @@ NO_EXTENSION_FILES :> {NO_EXTENSION_KEYWORD}
ImagesOnlyMappings == IMAGES :> {<<"j","p","g">>}
RunTables == {ExampleMappings, ImagesOnlyMappings}

RunPlatforms == {"linux", "win32"}

\* what selected_folder_path_var can hold when the button is pressed
RunTargets(plat) ==
    IF plat = "win32"
    THEN {<<"D",":","/","d","a","t","a">>, <<"C",":","/","W","i","n","d","o","w","s","/","T","e","m","p">>}
    ELSE {NoFolderSelected, <<"/","d","a","t","a">>, <<"/","u","s","r","/","l","o","c","a","l">>}

CandidateFiles ==
    {<<A_JPG>>, <<B_TXT>>, <<C_NOEXT>>, <<SUB, A_JPG>>, <<IMAGES, A_JPG>>, <<DOT_H, A_JPG>>}
CandidateEmptyDirs == {<<OLD>>, <<SUB, DEEP>>, <<DOT_H>>}
\* the folders that carry the hidden attribute when the platform is win32
Win32Hidden == {<<SUB>>}

Ancestors(path) == {SubSeq(path, 1, k) : k \in 0..(Len(path) - 1)}
TreeDirs(F, E) == {<< >>} \cup E \cup UNION {Ancestors(x) : x \in F \cup E}

InitRun ==
    /\ pc = "idle"
    /\ custom_category_mappings \in RunTables
    /\ settings_ops = 0
    /\ update_target = << >>
    /\ feedback = ""
    /\ request_facts = {}
    /\ PureAtRest
    /\ platform \in RunPlatforms
    /\ selected_folder \in RunTargets(platform)
    /\ \E F \in SUBSET CandidateFiles, E \in SUBSET CandidateEmptyDirs :
          /\ Cardinality(F) <= MaxFiles
          /\ Cardinality(E) <= MaxExtraDirs
          /\ fs_files = [f \in F |-> f]
          /\ fs_dirs = TreeDirs(F, E)
    /\ hidden_attrs = IF platform = "win32" THEN Win32Hidden \cap fs_dirs ELSE {}
    /\ RunAtRest

\* start_organization_command up to the try block: the two validations
StartOrganization ==
    /\ pc = "idle"
    /\ IF IsInvalidTarget(platform, selected_folder)
       THEN /\ pc' = "rejected"
            /\ status_log' = Append(status_log, "ERROR: Select a valid target folder")
       ELSE IF IsForbiddenTarget(platform, selected_folder)
       THEN /\ pc' = "rejected"
            /\ status_log' = Append(status_log, "CRITICAL ERROR: protected system directory")
       ELSE /\ pc' = "scan"
            /\ status_log' = Append(status_log, "Starting Full Organization")
    /\ tree_before' = <<fs_dirs, fs_files>>
    /\ files_to_process' = << >>
    /\ total_files' = 0
    /\ processed_files_count' = 0
    /\ actual_created_category_folder_names' = {}
    /\ UNCHANGED <<target_custom_category_name, walk_pending, walk_top, deleted_count,
                   io_failures>>
    /\ UNCHANGED <<tableVars, pureVars, previous_runs, treeVars>>

\* Phase 1; an empty scan ends the run at once, the cleanup is not called
ScanFolder ==
    /\ pc = "scan"
    /\ \E found \in get_files_in_folder(platform, hidden_attrs, fs_dirs, fs_files) :
          /\ files_to_process' = found
          /\ total_files' = Len(found)
          /\ pc' = IF found = << >> THEN "finished" ELSE "process"
          /\ status_log' = status_log \o
                IF found = << >>
                THEN <<"Phase 1: Scanning", "No files to process after scan",
                       "Organization attempt finished">>
                ELSE <<"Phase 1: Scanning", "Phase 2: Processing">>
    /\ UNCHANGED <<processed_files_count, actual_created_category_folder_names,
                   target_custom_category_name, walk_pending, walk_top, deleted_count,
                   tree_before, io_failures>>
    /\ UNCHANGED <<tableVars, pureVars, previous_runs, treeVars>>

\* I/O failures met since the first run on this tree started
RECURSIVE SumSeq(_)
SumSeq(seq) == IF seq = << >> THEN 0 ELSE Head(seq) + SumSeq(Tail(seq))
FailuresMet == io_failures + SumSeq(previous_runs)

\* Phase 2, one iteration of the loop over files_to_process
ProcessFile ==
    /\ pc = "process"
    /\ processed_files_count < total_files
    /\ \E full_file_path \in {files_to_process[processed_files_count + 1]} :
       \E processed_ext_key \in {ProcessedExtKey(BaseName(full_file_path))} :
           \E category \in {Classify(custom_category_mappings, order, processed_ext_key) :
                                order \in PermSeqs(DOMAIN custom_category_mappings)} :
                 /\ target_custom_category_name' = category
                 /\ \/ /\ category = << >> \/ Parent(full_file_path) = <<category>>
                       /\ UNCHANGED <<fs_dirs, fs_files, io_failures, status_log,
                                      actual_created_category_folder_names>>
                    \/ /\ category # << >> /\ Parent(full_file_path) # <<category>>
                       /\ actual_created_category_folder_names' =
                              actual_created_category_folder_names \cup {category}
                       /\ \/ \* folder there or created, file moved
                             /\ <<category>> \notin DOMAIN fs_files
                             /\ full_file_path \in DOMAIN fs_files
                             /\ fs_dirs' = create_folder_if_not_exists_gui(fs_dirs, category)
                             /\ fs_files' = move_file_to_folder_gui(fs_dirs', fs_files,
                                                                    full_file_path, category)
                             /\ UNCHANGED <<io_failures, status_log>>
                          \/ \* folder there or created, shutil.move raises
                             /\ <<category>> \notin DOMAIN fs_files
                             /\ FailuresMet < MaxIOFailures
                             /\ fs_dirs' = create_folder_if_not_exists_gui(fs_dirs, category)
                             /\ io_failures' = io_failures + 1
                             /\ status_log' = Append(status_log, "ERROR Moving File")
                             /\ UNCHANGED fs_files
                          \/ \* os.makedirs raises
                             /\ <<category>> \notin fs_dirs
                             /\ FailuresMet < MaxIOFailures
                             /\ io_failures' = io_failures + 1
                             /\ status_log' = Append(status_log, "ERROR Creating Directory")
                             /\ UNCHANGED <<fs_dirs, fs_files>>
    /\ processed_files_count' = processed_files_count + 1
    /\ UNCHANGED <<pc, files_to_process, total_files, walk_pending, walk_top, deleted_count,
                   tree_before>>
    /\ UNCHANGED <<tableVars, pureVars, previous_runs, platform, selected_folder, hidden_attrs>>

\* as StartCleanup, the sweep being called only when no failure was met
StartCleanup_OnlyAfterCleanRun ==
    /\ pc = "process"
    /\ processed_files_count = total_files
    /\ io_failures = 0
    /\ walk_pending' = fs_dirs
    /\ walk_top' = << >>
    /\ deleted_count' = 0
    /\ pc' = "cleanup"
    /\ status_log' = status_log \o <<"File processing complete", "Phase 3: Deleting empty subfolders">>
    /\ UNCHANGED <<files_to_process, total_files, processed_files_count,
                   actual_created_category_folder_names, target_custom_category_name,
                   tree_before, io_failures>>
    /\ UNCHANGED <<tableVars, pureVars, previous_runs, treeVars>>

\* Phase 3 begins: os.walk(topdown=False) lists the tree
StartCleanup ==
    /\ pc = "process"
    /\ processed_files_count = total_files
    /\ walk_pending' = fs_dirs
    /\ walk_top' = << >>
    /\ deleted_count' = 0
    /\ pc' = "cleanup"
    /\ status_log' = status_log \o <<"File processing complete", "Phase 3: Deleting empty subfolders">>
    /\ UNCHANGED <<files_to_process, total_files, processed_files_count,
                   actual_created_category_folder_names, target_custom_category_name,
                   tree_before, io_failures>>
    /\ UNCHANGED <<tableVars, pureVars, previous_runs, treeVars>>

\* one iteration of the loop of delete_empty_folders_recursively
CleanupVisit ==
    /\ pc = "cleanup"
    /\ \E dirpath \in NextYielded(walk_pending, walk_top) :
       LET kept == \/ dirpath = << >>
                   \/ dirpath \in ProtectedCategoryPaths(actual_created_category_folder_names)
       IN  /\ walk_pending' = walk_pending \ {dirpath}
           /\ walk_top' = Parent(dirpath)
           /\ \/ /\ kept \/ ListDir(fs_dirs, fs_files, dirpath) # {}
                 /\ UNCHANGED <<fs_dirs, deleted_count, io_failures, status_log>>
              \/ /\ ~kept
                 /\ ListDir(fs_dirs, fs_files, dirpath) = {}
                 /\ fs_dirs' = fs_dirs \ {dirpath}
                 /\ deleted_count' = deleted_count + 1
                 /\ UNCHANGED <<io_failures, status_log>>
              \/ \* os.listdir raises
                 /\ ~kept
                 /\ FailuresMet < MaxIOFailures
                 /\ io_failures' = io_failures + 1
                 /\ status_log' = Append(status_log, "ERROR accessing folder")
                 /\ UNCHANGED <<fs_dirs, deleted_count>>
              \/ \* os.rmdir raises
                 /\ ~kept
                 /\ ListDir(fs_dirs, fs_files, dirpath) = {}
                 /\ FailuresMet < MaxIOFailures
                 /\ io_failures' = io_failures + 1
                 /\ status_log' = Append(status_log, "ERROR deleting folder")
                 /\ UNCHANGED <<fs_dirs, deleted_count>>
    /\ UNCHANGED <<pc, files_to_process, total_files, processed_files_count,
                   actual_created_category_folder_names, target_custom_category_name,
                   tree_before>>
    /\ UNCHANGED <<tableVars, pureVars, previous_runs, platform, selected_folder, fs_files, hidden_attrs>>

\* the sweep is over: summary line, then the finally block
FinishRun ==
    /\ pc = "cleanup"
    /\ walk_pending = {}
    /\ pc' = "finished"
    /\ status_log' = status_log \o <<"Cleanup summary", "Organization attempt finished">>
    /\ UNCHANGED <<files_to_process, total_files, processed_files_count,
                   actual_created_category_folder_names, target_custom_category_name,
                   walk_pending, walk_top, deleted_count, tree_before, io_failures>>
    /\ UNCHANGED <<tableVars, pureVars, previous_runs, treeVars>>

NextRun ==
    \/ StartOrganization
    \/ ScanFolder
    \/ ProcessFile
    \/ StartCleanup
    \/ CleanupVisit
    \/ FinishRun

SpecRun == InitRun /\ [][NextRun]_vars

\* once started, the handler runs on the GUI thread without waiting for
\* anything: a step of the run that can be taken is taken
LiveFiles == {<<A_JPG>>, <<B_TXT>>, <<SUB, A_JPG>>, <<IMAGES, A_JPG>>}
LiveEmptyDirs == {<<OLD>>, <<SUB, DEEP>>}

\* the runs followed to their end: linux and the smaller trees
InitRunLive ==
    /\ pc = "idle"
    /\ custom_category_mappings \in RunTables
    /\ settings_ops = 0
    /\ update_target = << >>
    /\ feedback = ""
    /\ request_facts = {}
    /\ PureAtRest
    /\ platform = "linux"
    /\ selected_folder \in RunTargets(platform)
    /\ \E F \in SUBSET LiveFiles, E \in SUBSET LiveEmptyDirs :
          /\ Cardinality(F) <= MaxFiles
          /\ Cardinality(E) <= MaxExtraDirs
          /\ fs_files = [f \in F |-> f]
          /\ fs_dirs = TreeDirs(F, E)
    /\ hidden_attrs = {}
    /\ RunAtRest

SpecRunLive ==
    /\ InitRunLive
    /\ [][NextRun]_vars
    /\ WF_vars(ScanFolder)
    /\ WF_vars(ProcessFile)
    /\ WF_vars(StartCleanup)
    /\ WF_vars(CleanupVisit)
    /\ WF_vars(FinishRun)

-----------------------------------------------------------------------------
(* SpecGuard: the organize button pressed on every kind of target folder,  *)
(* the tree below the target being the same each time.                     *)

GuardPlatforms == {"linux", "win32", "darwin"}

GuardTargets(plat) ==
    IF plat = "win32"
    THEN {NoFolderSelected, <<"D",":","/","d","a","t","a">>,
          <<"C",":","/","W","i","n","d","o","w","s">>,
          <<"C",":","/","W","i","n","d","o","w","s","/","T","e","m","p">>,
          <<"C",":","/","W","i","n","d","o","w","s","O","l","d">>,
          <<"C",":","/","P","r","o","g","r","a","m"," ","F","i","l","e","s">>,
          <<"C",":","\\","W","i","n","d","o","w","s","\\","T","e","m","p">>,
          <<"D",":","/","m","i","s","s","i","n","g">>}
    ELSE {<< >>, NoFolderSelected, <<"/","d","a","t","a">>,
          <<"/","u","s","r">>,
          <<"/","u","s","r","/","l","o","c","a","l">>,
          <<"/","u","s","r","x">>,
          <<"/","m","i","s","s","i","n","g">>,
          <<"/","u","s","r","/">>,
          <<"/","d","a","t","a","/",".",".","/","u","s","r","/","l","o","c","a","l">>,
          <<"/","e","t","c">>,
          <<"/","h","o","m","e","/","u","/",".","c","o","n","f","i","g">>}

GuardDirs == {<< >>, <<SUB>>, <<OLD>>}
GuardFiles == [f \in {<<A_JPG>>, <<B_TXT>>, <<SUB, A_JPG>>} |-> f]

InitGuard ==
    /\ pc = "idle"
    /\ custom_category_mappings = ImagesOnlyMappings
    /\ settings_ops = 0
    /\ update_target = << >>
    /\ feedback = ""
    /\ request_facts = {}
    /\ PureAtRest
    /\ platform \in GuardPlatforms
    /\ selected_folder \in GuardTargets(platform)
    /\ fs_dirs = GuardDirs
    /\ fs_files = GuardFiles
    /\ hidden_attrs = IF platform = "win32" THEN Win32Hidden \cap fs_dirs ELSE {}
    /\ RunAtRest

SpecGuard == InitGuard /\ [][NextRun]_vars

-----------------------------------------------------------------------------
(* SpecRerun: the Organize button pressed again after a run has finished,  *)
(* with the same folder selected, the same table and nothing else acting   *)
(* on the tree.                                                            *)

\* start_organization_command entered again: the validations pass as they
\* did for the finished run, the locals are fresh (lines 554-557); the text
\* box keeps what the earlier run wrote
OrganizeAgain ==
    /\ pc = "finished"
    /\ Len(previous_runs) + 1 < MaxRuns
    /\ ~IsInvalidTarget(platform, selected_folder)
    /\ ~IsForbiddenTarget(platform, selected_folder)
    /\ previous_runs' = Append(previous_runs, io_failures)
    /\ pc' = "scan"
    /\ status_log' = Append(status_log, "Starting Full Organization")
    /\ fs_files' = [f \in DOMAIN fs_files |-> f]
    /\ tree_before' = <<fs_dirs, fs_files'>>
    /\ files_to_process' = << >>
    /\ total_files' = 0
    /\ processed_files_count' = 0
    /\ actual_created_category_folder_names' = {}
    /\ io_failures' = 0
    /\ UNCHANGED <<target_custom_category_name, walk_pending, walk_top, deleted_count>>
    /\ UNCHANGED <<tableVars, pureVars, platform, selected_folder, fs_dirs, hidden_attrs>>

RerunFiles == {<<A_JPG>>, <<B_TXT>>, <<SUB, A_JPG>>, <<IMAGES, A_JPG>>}
RerunEmptyDirs == {<<OLD>>, <<SUB, DEEP>>, <<DOT_H>>}

\* the trees, tables and platforms the repeated runs start on
InitRerun ==
    /\ pc = "idle"
    /\ custom_category_mappings \in RunTables
    /\ settings_ops = 0
    /\ update_target = << >>
    /\ feedback = ""
    /\ request_facts = {}
    /\ PureAtRest
    /\ platform \in RunPlatforms
    /\ selected_folder \in RunTargets(platform)
    /\ \E F \in SUBSET RerunFiles, E \in SUBSET RerunEmptyDirs :
          /\ Cardinality(F) <= MaxFiles
          /\ Cardinality(E) <= MaxExtraDirs
          /\ fs_files = [f \in F |-> f]
          /\ fs_dirs = TreeDirs(F, E)
    /\ hidden_attrs = IF platform = "win32" THEN Win32Hidden \cap fs_dirs ELSE {}
    /\ RunAtRest

NextRerun ==
    \/ StartOrganization
    \/ ScanFolder
    \/ ProcessFile
    \/ StartCleanup
    \/ CleanupVisit
    \/ FinishRun
    \/ OrganizeAgain

SpecRerun == InitRerun /\ [][NextRerun]_vars

-----------------------------------------------------------------------------
(* SpecMove: move_file_to_folder_gui called on its own, several times on   *)
(* the same source path and category.                                      *)

A_1_JPG == Sibling(A_JPG, 1)
MoveCandidates == {<<A_JPG>>, <<IMAGES, A_JPG>>, <<IMAGES, A_1_JPG>>,
                   <<DOCS, A_JPG>>, <<SUB, A_JPG>>}
MoveCategories == {IMAGES, DOCS}

InitMove ==
    /\ pc = "move_input"
    /\ TableAtRest
    /\ file_name = << >>
    /\ key_out = << >>
    /\ coll_out = << >>
    /\ platform = "linux"
    /\ selected_folder = << >>
    /\ hidden_attrs = {}
    /\ \E F \in SUBSET MoveCandidates :
          /\ fs_files = [f \in F |-> f]
          /\ fs_dirs = TreeDirs(F, {<<c>> : c \in MoveCategories})
          /\ move_source \in F
    /\ target_custom_category_name \in MoveCategories
    /\ move_calls = 0
    /\ moved_successfully = FALSE
    /\ files_to_process = << >>
    /\ total_files = 0
    /\ processed_files_count = 0
    /\ actual_created_category_folder_names = {}
    /\ walk_pending = {}
    /\ walk_top = << >>
    /\ deleted_count = 0
    /\ status_log = << >>
    /\ tree_before = <<fs_dirs, fs_files>>
    /\ io_failures = 0
    /\ previous_runs = << >>

\* one call move_file_to_folder_gui(move_source, root, category, textbox)
CallMove ==
    /\ pc = "move_input"
    /\ move_calls < MaxMoveCalls
    /\ move_calls' = move_calls + 1
    /\ tree_before' = <<fs_dirs, fs_files>>
    /\ \E move_ok \in BOOLEAN :
          /\ fs_files' = IF move_source \in DOMAIN fs_files /\ move_ok
                         THEN move_file_to_folder_gui(fs_dirs, fs_files, move_source,
                                                      target_custom_category_name)
                         ELSE fs_files
          /\ moved_successfully' = MoveReturns(fs_files, move_source,
                                               target_custom_category_name, move_ok)
    /\ UNCHANGED <<pc, tableVars, previous_runs, file_name, key_out, coll_out, move_source,
                   platform, selected_folder, fs_dirs, hidden_attrs>>
    /\ UNCHANGED <<files_to_process, total_files, processed_files_count,
                   actual_created_category_folder_names,
                   target_custom_category_name, walk_pending, walk_top,
                   deleted_count, status_log, io_failures>>

NextMove == CallMove

SpecMove == InitMove /\ [][NextMove]_vars

-----------------------------------------------------------------------------
(* Claims about the extension key and the collision-safe destination.      *)

LastDot(name) == SetMax({i \in 1..Len(name) : name[i] = "."})
HasDot(name) == \E i \in 1..Len(name) : name[i] = "."
AfterLastDot(name) == SubSeq(name, LastDot(name) + 1, Len(name))

\* the key as C5 states it
C5_StatedKey(name) ==
    IF ~HasDot(name) \/ AfterLastDot(name) = << >>
    THEN NO_EXTENSION_KEYWORD
    ELSE Lower(AfterLastDot(name))

\* the key as C5 amended states it: a name whose last dot is preceded by dots
\* only (a leading-dot name) has no extension either
C5_AmendedKey(name) ==
    IF \/ ~HasDot(name)
       \/ AfterLastDot(name) = << >>
       \/ \A j \in 1..(LastDot(name) - 1) : name[j] = "."
    THEN NO_EXTENSION_KEYWORD
    ELSE Lower(AfterLastDot(name))

\* C5 as stated: the key of every file name is the lower-cased text after its
\* last dot, the no_extension sentinel when the name has no dot or nothing
\* follows the last dot, and never the empty string.
C5_KeyAsStated ==
    pc = "key_done" =>
        /\ key_out = C5_StatedKey(file_name)
        /\ key_out # << >>

\* C5 amended: the key is the lower-cased text after the last dot; it is the
\* sentinel when the name has no dot, when nothing follows the last dot, or
\* when only dots precede the last dot; it is never empty, it is lower-case,
\* and "report.PDF" gives "pdf".
C5_KeyAmended ==
    pc = "key_done" =>
        /\ key_out = C5_AmendedKey(file_name)
        /\ key_out # << >>
        /\ key_out = Lower(key_out)
        /\ (file_name = ReportPDF => key_out = <<"p", "d", "f">>)

C5_Witness ==
    /\ pc = "key_done"
    /\ file_name = ReportPDF
    /\ key_out = <<"p", "d", "f">>

\* C7: the destination is folder/name when that path is free; otherwise it is
\* folder/stem_k+ext for the smallest k >= 1 whose path is free, every
\* stem_j+ext with 1 <= j < k being taken.
C7_CollisionResolution ==
    pc = "coll_done" =>
        IF ~PathExists(fs_dirs, fs_files, <<DOCS, file_name>>)
        THEN coll_out = <<DOCS, file_name>>
        ELSE \E k \in 1..(Cardinality(DOMAIN fs_files) + 1) :
                /\ coll_out = <<DOCS, Sibling(file_name, k)>>
                /\ ~PathExists(fs_dirs, fs_files, coll_out)
                /\ \A j \in 1..(k - 1) :
                      PathExists(fs_dirs, fs_files, <<DOCS, Sibling(file_name, j)>>)

C7_Witness ==
    /\ pc = "coll_done"
    /\ file_name = A_TXT
    /\ <<DOCS, A_TXT>> \in DOMAIN fs_files
    /\ <<DOCS, Sibling(A_TXT, 1)>> \in DOMAIN fs_files
    /\ coll_out = <<DOCS, <<"a", "_", "2", ".", "t", "x", "t">> >>

-----------------------------------------------------------------------------
(* Claims about the category table and its mutation contract.              *)

X_NAME == <<"X">>
JPG == <<"j", "p", "g">>

\* the outcomes of add_or_update by the names the contract gives them
EmptyName == {"CategoryNameEmpty"}
EmptyExtensions == {"ExtensionsEmpty", "NoValidExtensions"}
ReservedNameViolation == {"MustOnlyContainKeyword", "KeywordOnlyInNoExtensionCategory"}
NameCollision == {"CategoryAlreadyExists", "NewNameAlreadyExists"}
ExtensionConflict == {"ExtensionsInOtherCategories"}

\* C1: after any sequence of add, update/rename and remove operations from a
\* table with unique ownership, every extension token (the sentinel included)
\* is in the set of at most one category.
C1_UniqueOwnership ==
    \A c1 \in DOMAIN custom_category_mappings :
        \A c2 \in DOMAIN custom_category_mappings :
            c1 # c2 =>
                custom_category_mappings[c1] \cap custom_category_mappings[c2] = {}

C1_Witness ==
    /\ settings_ops > 0
    /\ X_NAME \in DOMAIN custom_category_mappings
    /\ JPG \in custom_category_mappings[X_NAME]
    /\ IMAGES \notin DOMAIN custom_category_mappings
    /\ Cardinality(DOMAIN custom_category_mappings) > 1

\* C2 as stated: a request whose extension set holds a token owned by a
\* category other than the one being updated always fails with
\* ExtensionConflict and leaves the table as it was.
C2_AlwaysExtensionConflict ==
    "owned_elsewhere" \in request_facts =>
        /\ feedback \in ExtensionConflict
        /\ "table_changed" \notin request_facts

\* C2 amended: such a request always fails and leaves the table as it was; the
\* failure is ExtensionConflict unless an earlier check rejects the request
\* first: EmptyName (blank name), ReservedNameViolation, or NameCollision (the
\* new name is taken by another entry).
C2_ConflictRejected ==
    "owned_elsewhere" \in request_facts =>
        /\ "table_changed" \notin request_facts
        /\ feedback \in ExtensionConflict \cup EmptyName \cup ReservedNameViolation
                          \cup NameCollision
        /\ (feedback \in EmptyName <=> "blank_name" \in request_facts)
        /\ (feedback \in NameCollision => "name_taken" \in request_facts)
        /\ (("name_taken" \in request_facts /\ feedback \notin ReservedNameViolation)
               => feedback \in NameCollision)

C2_Witness ==
    /\ "owned_elsewhere" \in request_facts
    /\ feedback \in ExtensionConflict
    /\ update_target # << >>

\* the two rules on the reserved no-extension category
ReservedRule(table) ==
    \A cat \in DOMAIN table :
        IF DenotesNoExtensionCategory(cat)
        THEN table[cat] = {NO_EXTENSION_KEYWORD}
        ELSE NO_EXTENSION_KEYWORD \notin table[cat]

\* C3 as stated: the reserved category holds exactly {no_extension}, no other
\* category holds the sentinel, and a request that would break either rule is
\* rejected with ReservedNameViolation and changes nothing.
C3_ReservedAsStated ==
    /\ ReservedRule(custom_category_mappings)
    /\ "breaks_reserved_rule" \in request_facts =>
          /\ feedback \in ReservedNameViolation
          /\ "table_changed" \notin request_facts

\* C3 amended: the two rules hold of every reachable table; a request that
\* would break either is rejected and changes nothing, with
\* ReservedNameViolation unless its name is blank (EmptyName) or its extension
\* text is blank (EmptyExtensions).
C3_ReservedRule ==
    /\ ReservedRule(custom_category_mappings)
    /\ "breaks_reserved_rule" \in request_facts =>
          /\ "table_changed" \notin request_facts
          /\ feedback \in ReservedNameViolation \cup EmptyName \cup {"ExtensionsEmpty"}
          /\ (feedback \in EmptyName <=> "blank_name" \in request_facts)
          /\ (feedback = "ExtensionsEmpty" => "no_tokens" \in request_facts)

C3_Witness ==
    /\ "breaks_reserved_rule" \in request_facts
    /\ feedback = "KeywordOnlyInNoExtensionCategory"
    /\ Lower(NO_EXTENSION_FILES) \in DOMAIN custom_category_mappings

WellFormedToken(token) ==
    \/ token = NO_EXTENSION_KEYWORD
    \/ /\ token # << >>
       /\ token = Lower(token)
       /\ Head(token) # "."

\* C4: every category name in the table is non-empty, every stored extension
\* set is non-empty, and every stored token is the sentinel or a non-empty
\* lower-case string with no leading dot.
C4_WellFormedTable ==
    \A cat \in DOMAIN custom_category_mappings :
        /\ cat # << >>
        /\ custom_category_mappings[cat] # {}
        /\ \A token \in custom_category_mappings[cat] : WellFormedToken(token)

-----------------------------------------------------------------------------
(* Claims about classification and the organize run.                       *)

Owners(table, key) == {c \in DOMAIN table : key \in table[c]}

\* C6: under the uniqueness invariant at most one category's set contains a
\* key; the scan of the table returns exactly that category whatever the
\* order of the entries, and null when no category contains the key.
C6_ClassifyUnique ==
    /\ Cardinality(Owners(custom_category_mappings, key_out)) <= 1
    /\ pc = "classify_done" =>
          IF Owners(custom_category_mappings, key_out) = {}
          THEN target_custom_category_name = << >>
          ELSE Owners(custom_category_mappings, key_out) = {target_custom_category_name}

\* a key owned by the last of three categories has been classified
C6_Witness ==
    /\ pc = "classify_done"
    /\ Cardinality(DOMAIN custom_category_mappings) = 3
    /\ key_out = NO_EXTENSION_KEYWORD
    /\ target_custom_category_name = NO_EXTENSION_FILES

\* where the file scanned at original is now
CurrentPaths(original) == {p \in DOMAIN fs_files : fs_files[p] = original}

\* name or stem_k.ext of name
NameOrSibling(name) == {name} \cup {Sibling(name, k) : k \in 1..Cardinality(DOMAIN fs_files)}

\* C8: after a run that passed validation and met no I/O failure, every
\* scanned file whose key is owned by category C is directly in root/C under
\* its name or a stem_k name, every scanned file owned by no category is at
\* its original path, and the processed count equals the number discovered.
C8_RunOutcome ==
    (pc = "finished" /\ io_failures = 0) =>
        /\ processed_files_count = total_files
        /\ total_files = Len(files_to_process)
        /\ \A i \in 1..Len(files_to_process) :
              LET original == files_to_process[i]
                  owners == Owners(custom_category_mappings,
                                   ProcessedExtKey(BaseName(original)))
              IN  /\ Cardinality(CurrentPaths(original)) = 1
                  /\ \A current \in CurrentPaths(original) :
                        IF owners = {} THEN current = original
                        ELSE /\ Len(current) = 2
                             /\ current[1] \in owners
                             /\ current[2] \in NameOrSibling(BaseName(original))

\* the run on a.jpg, b.txt, c with IMAGES, DOCS, NO_EXTENSION_FILES
C8_Witness ==
    /\ pc = "finished"
    /\ io_failures = 0
    /\ custom_category_mappings = ExampleMappings
    /\ processed_files_count = 3
    /\ fs_files = (<<IMAGES, A_JPG>> :> <<A_JPG>> @@ <<DOCS, B_TXT>> :> <<B_TXT>>
                     @@ <<NO_EXTENSION_FILES, C_NOEXT>> :> <<C_NOEXT>>)

\* C9: no step deletes the organize root, a folder directly under the root
\* named after a category used in this run, or a directory that is not
\* empty when it is visited.
C9_CleanupSafety ==
    [][\A d \in fs_dirs \ fs_dirs' :
          /\ d # << >>
          /\ ~(Len(d) = 1 /\ d[1] \in actual_created_category_folder_names)
          /\ ListDir(fs_dirs, fs_files, d) = {}]_vars

\* the sweep deleted a folder and kept an empty folder of a used category
C9_Witness ==
    /\ pc = "finished"
    /\ deleted_count > 0
    /\ \E name \in actual_created_category_folder_names :
          /\ <<name>> \in fs_dirs
          /\ ListDir(fs_dirs, fs_files, <<name>>) = {}
    /\ \E d \in fs_dirs : d # << >> /\ ListDir(fs_dirs, fs_files, d) # {}

\* C10: after a run that passed validation and met no I/O failure, no empty
\* subfolder is left under the root, except folders of categories used in
\* this run.
C10_EmptyFoldersDeleted ==
    (pc = "finished" /\ io_failures = 0) =>
        \A d \in fs_dirs :
            (d # << >> /\ ListDir(fs_dirs, fs_files, d) = {})
                => d \in ProtectedCategoryPaths(actual_created_category_folder_names)

-----------------------------------------------------------------------------
(* Claims about the phases of a run, root validation and failures.         *)

PHASE1 == "Phase 1: Scanning"
PHASE2 == "Phase 2: Processing"
PHASE3 == "Phase 3: Deleting empty subfolders"

IsPhaseMarker(message) == message \in {PHASE1, PHASE2, PHASE3}

\* the phases the log shows to have started, in the order they started
PhasesStarted == SelectSeq(status_log, IsPhaseMarker)

\* C11: a run that has ended was either rejected by the validation with no
\* phase started, or went through scan, classify-and-move and cleanup in
\* this order; the phases start in this order, each after the one before
\* has ended.
C11_ThreePhases ==
    /\ PhasesStarted \in {<< >>, <<PHASE1>>, <<PHASE1, PHASE2>>, <<PHASE1, PHASE2, PHASE3>>}
    /\ pc = "rejected" => PhasesStarted = << >>
    /\ pc = "process" => PhasesStarted = <<PHASE1, PHASE2>>
    /\ pc = "cleanup" => /\ PhasesStarted = <<PHASE1, PHASE2, PHASE3>>
                         /\ processed_files_count = total_files
    /\ pc = "finished" => /\ PhasesStarted = <<PHASE1, PHASE2, PHASE3>>
                          /\ walk_pending = {}

\* the components of a normalized path
Components(plat, path) ==
    SelectSeq(Split(path, Sep(plat)), LAMBDA c : c # << >>)

IsPrefixSeq(p, q) == Len(p) <= Len(q) /\ SubSeq(q, 1, Len(p)) = p

\* the target is a protected root or lies below one, by whole components
UnderProtectedRoot ==
    \E protected_root \in get_forbidden_paths(platform) :
        IsPrefixSeq(Components(platform, protected_root),
                    Components(platform, NormPath(platform, selected_folder)))

IsErrorMessage(message) ==
    message \in {"ERROR: Select a valid target folder",
                 "CRITICAL ERROR: protected system directory"}

IsFailureMessage(message) ==
    message \in {"ERROR Creating Directory", "ERROR Moving File",
                 "ERROR accessing folder", "ERROR deleting folder"}

\* C13: a run that passed the validation reaches the finished state with
\* the processed count equal to the total discovered and every failure to
\* create a folder, move a file, list or remove a directory logged; when
\* a failure was met, the files after it were still processed and the
\* cleanup sweep still ran, to its end.
C13_FailuresContained ==
    (pc = "scan") ~>
        /\ pc = "finished"
        /\ processed_files_count = total_files
        /\ Len(SelectSeq(status_log, IsFailureMessage)) = io_failures
        /\ io_failures > 0 => /\ PhasesStarted = <<PHASE1, PHASE2, PHASE3>>
                              /\ walk_pending = {}

\* a folder could not be created for the first of several files, and the run
\* has finished with every file processed and the sweep done
C13_Witness ==
    /\ pc = "finished"
    /\ total_files >= 2
    /\ processed_files_count = total_files
    /\ status_log[4] = "ERROR Creating Directory"
    /\ PhasesStarted = <<PHASE1, PHASE2, PHASE3>>
    /\ \E f \in DOMAIN fs_files : fs_files[f] # f

-----------------------------------------------------------------------------
(* Claims about the move on its own, hidden entries, overwriting and       *)
(* a second run.                                                           *)

\* C14: a call of the move on a file that already sits at root/category/name
\* returns true and changes nothing, at the first call and at the second:
\* after every such call the returned value is TRUE and the folders and
\* files are as they were before the call
C14_MoveInPlaceNoOp ==
    (/\ move_calls >= 1
     /\ AlreadyInPlace(move_source, target_custom_category_name)
     /\ move_source \in DOMAIN tree_before[2])
        => /\ moved_successfully = TRUE
           /\ <<fs_dirs, fs_files>> = tree_before


\* an entry that is hidden or system itself, or lies inside such a directory
IsHiddenEntry(path) ==
    \E k \in 1..Len(path) :
        is_system_or_hidden(platform, hidden_attrs, SubSeq(path, 1, k))

HiddenDirs(dirs) == {d \in dirs : IsHiddenEntry(d)}
HiddenFiles(files) == {<<f, files[f]>> : f \in {g \in DOMAIN files : IsHiddenEntry(g)}}

\* C15: from the start of a run on, the scan reports no hidden or system
\* entry and nothing inside a hidden or system directory, and the hidden or
\* system directories and files of the tree are those it had before the run,
\* each file at the path it had
C15_HiddenUntouched ==
    pc \in {"scan", "process", "cleanup", "finished"}
        => /\ \A i \in 1..Len(files_to_process) : ~IsHiddenEntry(files_to_process[i])
           /\ HiddenDirs(fs_dirs) = HiddenDirs(tree_before[1])
           /\ HiddenFiles(fs_files) = HiddenFiles(tree_before[2])

\* C16: no move replaces an existing file or directory: a step that changes
\* the files puts the moved file on a path that was free before the step and
\* leaves every other file where it was, and from the start of a run on every
\* file the tree had before the run is at exactly one path, so that two
\* files of the same name and category sit under distinct names and the
\* number of files is the one before the run
C16_NoOverwrite ==
    /\ [](pc \in {"scan", "process", "cleanup", "finished"}
            => /\ Cardinality(DOMAIN fs_files) = Cardinality(DOMAIN tree_before[2])
               /\ \A original \in DOMAIN tree_before[2] :
                     Cardinality(CurrentPaths(original)) = 1)
    /\ [][fs_files' # fs_files
            => /\ \A p \in DOMAIN fs_files' \ DOMAIN fs_files :
                     ~PathExists(fs_dirs, fs_files, p)
               /\ \A p \in DOMAIN fs_files \cap DOMAIN fs_files' :
                     fs_files'[p] = fs_files[p]
               /\ Cardinality(DOMAIN fs_files' \ DOMAIN fs_files) = 1
               /\ Cardinality(DOMAIN fs_files \ DOMAIN fs_files') = 1]_vars

\* a finished run that moved two files of the same name into IMAGES, where a
\* third file of that name was already
C16_Witness ==
    /\ pc = "finished"
    /\ <<IMAGES, A_JPG>> \in DOMAIN fs_files
    /\ fs_files[<<IMAGES, A_JPG>>] = <<IMAGES, A_JPG>>
    /\ \E p, q \in DOMAIN fs_files :
          /\ p # q
          /\ Parent(p) = <<IMAGES>> /\ Parent(q) = <<IMAGES>>
          /\ fs_files[p] # p /\ fs_files[q] # q
          /\ BaseName(fs_files[p]) = A_JPG /\ BaseName(fs_files[q]) = A_JPG

\* C17: throughout a run that follows a run which passed validation and met
\* no I/O failure, on the same root with the same table, the folders and the
\* files are those the earlier run left: nothing is moved, created or deleted
C17_RunIdempotent ==
    (/\ previous_runs # << >>
     /\ previous_runs[Len(previous_runs)] = 0)
        => /\ fs_dirs = tree_before[1]
           /\ fs_files = tree_before[2]

\* a second run has finished, after a first run without failure that left
\* files in IMAGES and files where they were; it scanned them all again and
\* swept the folders
C17_Witness ==
    /\ pc = "finished"
    /\ previous_runs = <<0>>
    /\ total_files >= 2
    /\ processed_files_count = total_files
    /\ walk_pending = {}
    /\ Len(PhasesStarted) = 6
    /\ \E f \in DOMAIN fs_files : Parent(f) = <<IMAGES>>
    /\ \E f \in DOMAIN fs_files : Parent(f) # <<IMAGES>>

====
